---- MODULE Spec2Model ----
(***************************************************************************)
(* Model of the timetable scheduling engine of src/app.py: the class       *)
(* GeneticAlgorithmTimetable (create_individual, the conflict predicates,  *)
(* calculate_fitness, crossover, mutate, evolve).                          *)
(*                                                                         *)
(* Lecture sessions are Python dicts that crossover shares by reference    *)
(* and mutate writes in place, so they live in a heap (variable heap) and  *)
(* an individual's lecture list is a list of references into it.           *)
(* Practical and mentoring dicts are never written after they are          *)
(* created, so sharing them is unobservable and they are kept as values.   *)
(***************************************************************************)
EXTENDS Integers, Sequences, FiniteSets, TLC

(***************************************************************************)
(* Bounds of the model.                                                    *)
(***************************************************************************)
\* Number of working days of the grid (app.config['DAYS'] has 5 names) in
\* the requests of the create_individual and fitness specifications.
NumDays == 2

\* Number of working days of the grid in the two-candidate evolve run.
RunDays == 1

(***************************************************************************)
(* The time grid (GeneticAlgorithmTimetable.__init__).                     *)
(***************************************************************************)
\* Python's None (and every falsy id: "if not faculty_id").
None == 0

\* -inf, the initial best_fitness; fitness values are >= 0.
NegInf == -1

\* self.time_slots: (index, start, end, is_break); time_slots[k+1] is slot k.
time_slots ==
  << [idx |-> 0, start |-> "09:40", end |-> "10:40", brk |-> FALSE],
     [idx |-> 1, start |-> "10:50", end |-> "11:50", brk |-> FALSE],
     [idx |-> 2, start |-> "11:50", end |-> "12:40", brk |-> TRUE],
     [idx |-> 3, start |-> "12:40", end |-> "13:40", brk |-> FALSE],
     [idx |-> 4, start |-> "13:50", end |-> "14:50", brk |-> FALSE],
     [idx |-> 5, start |-> "15:00", end |-> "16:00", brk |-> FALSE],
     [idx |-> 6, start |-> "16:10", end |-> "17:10", brk |-> FALSE] >>

\* self.lecture_slots = app.config['LECTURE_SLOT_INDICES'].
lecture_slots == {0, 1, 3, 4, 5, 6}

\* random.choice([4, 5]): the first slot of a practical.
practical_starts == {4, 5}

(***************************************************************************)
(* Generic helpers.                                                        *)
(***************************************************************************)
Max(a, b) == IF a >= b THEN a ELSE b

Range(s) == {s[i] : i \in DOMAIN s}

\* s[lo+1 .. ] and s[ .. hi] with Python's slice clamping.
Take(s, n) == SubSeq(s, 1, IF n <= Len(s) THEN n ELSE Len(s))

Drop(s, n) == IF n >= Len(s) THEN << >> ELSE SubSeq(s, n + 1, Len(s))

RECURSIVE SelectSeqBy(_, _)
\* [x for x in s if x.room_type = t]
SelectSeqBy(s, t) ==
  IF s = << >> THEN << >>
  ELSE IF Head(s).room_type = t
       THEN << Head(s) >> \o SelectSeqBy(Tail(s), t)
       ELSE SelectSeqBy(Tail(s), t)

(***************************************************************************)
(* The request: the rows __init__ reads.                                   *)
(***************************************************************************)
ClassSubject(id, faculty_id, lec, prac) ==
  [id |-> id, subject_id |-> id, faculty_id |-> faculty_id,
   lecture_slots_per_week |-> lec, practical_slots_per_week |-> prac]

Batch(id, mentor_id) == [id |-> id, mentor_id |-> mentor_id]

Room(id, room_type) == [id |-> id, room_type |-> room_type]

\* self.classrooms: the rooms of type Classroom, or one placeholder whose
\* id is None (a Room object that was never stored has no id).
Classrooms(rooms) ==
  LET cs == SelectSeqBy(rooms, "Classroom")
  IN  IF cs = << >> THEN << Room(None, "Classroom") >> ELSE cs

\* self.labs: the rooms of type Lab, or one placeholder.
Labs(rooms) ==
  LET ls == SelectSeqBy(rooms, "Lab")
  IN  IF ls = << >> THEN << Room(None, "Lab") >> ELSE ls

\* The instance: self.days (the day names, numbered 1 .. n), and the rows.
Request(n, cs, bs, rooms) ==
  [days |-> 1 .. n, class_subjects |-> cs, batches |-> bs,
   classrooms |-> Classrooms(rooms), labs |-> Labs(rooms)]

VARIABLES
  req,              \* days, class_subjects, batches, classrooms, labs of the instance
  params,           \* evolve's arguments
  heap,             \* the lecture dicts; a reference is an index
  individual,       \* create_individual's individual under construction
  pos,              \* create_individual's position: phase, batch, subject, scheduled
  ret,              \* who called create_individual
  pc,               \* evolve's state
  population,       \* self.population
  fitness_scores,   \* evolve's fitness_scores (sorted)
  next_generation,  \* evolve's next_generation
  generation,       \* evolve's loop counter
  best_solution,    \* self.best_solution: << >> is None, else << the individual >>
  best_fitness,     \* self.best_fitness
  elites_at_select, \* history: the elites' sessions when they were selected
  arg,              \* input of a pure function under check
  out               \* its result

vars == << req, params, heap, individual, pos, ret, pc, population,
           fitness_scores, next_generation, generation, best_solution,
           best_fitness, elites_at_select, arg, out >>

evolve_vars == << params, pc, population, fitness_scores, next_generation,
                  generation, best_solution, best_fitness, elites_at_select >>

pure_vars == << arg, out >>

(***************************************************************************)
(* Individuals.                                                            *)
(***************************************************************************)
EmptyIndividual == [lectures |-> << >>, practicals |-> << >>, mentoring |-> << >>]

\* The individual as the code reads it: every lecture reference followed.
Deref(h, ind) ==
  [lectures |-> [i \in DOMAIN ind.lectures |-> h[ind.lectures[i]]],
   practicals |-> ind.practicals,
   mentoring |-> ind.mentoring]

(***************************************************************************)
(* Conflict predicates, on a dereferenced individual.                      *)
(***************************************************************************)
\* check_faculty_busy that takes a practical to occupy its first slot only.
check_faculty_busy_practical_start_only(ind, faculty_id, day, slot_number) ==
  IF faculty_id = None THEN FALSE
  ELSE \/ \E i \in DOMAIN ind.lectures :
            /\ ind.lectures[i].faculty_id = faculty_id
            /\ ind.lectures[i].day = day
            /\ ind.lectures[i].slot_number = slot_number
       \/ \E i \in DOMAIN ind.practicals :
            /\ ind.practicals[i].faculty_id = faculty_id
            /\ ind.practicals[i].day = day
            /\ slot_number = ind.practicals[i].start_slot
       \/ \E i \in DOMAIN ind.mentoring :
            /\ ind.mentoring[i].faculty_id = faculty_id
            /\ ind.mentoring[i].day = day
            /\ ind.mentoring[i].slot_number = slot_number

check_faculty_busy(ind, faculty_id, day, slot_number) ==
  IF faculty_id = None THEN FALSE
  ELSE \/ \E i \in DOMAIN ind.lectures :
            /\ ind.lectures[i].faculty_id = faculty_id
            /\ ind.lectures[i].day = day
            /\ ind.lectures[i].slot_number = slot_number
       \/ \E i \in DOMAIN ind.practicals :
            /\ ind.practicals[i].faculty_id = faculty_id
            /\ ind.practicals[i].day = day
            /\ slot_number >= ind.practicals[i].start_slot
            /\ slot_number <= ind.practicals[i].end_slot
       \/ \E i \in DOMAIN ind.mentoring :
            /\ ind.mentoring[i].faculty_id = faculty_id
            /\ ind.mentoring[i].day = day
            /\ ind.mentoring[i].slot_number = slot_number

\* find_available_classroom with the scan of the lectures left out.
find_available_classroom_mentoring_only(classrooms, ind, day, slot_number) ==
  { classrooms[k].id : k \in
      { k \in DOMAIN classrooms :
          \A i \in DOMAIN ind.mentoring :
            ~ ( /\ ind.mentoring[i].day = day
                /\ ind.mentoring[i].slot_number = slot_number
                /\ ind.mentoring[i].room_id = classrooms[k].id ) } }

\* The ids random.choice(available_classrooms) may return; {} is None.
find_available_classroom(classrooms, ind, day, slot_number) ==
  { classrooms[k].id : k \in
      { k \in DOMAIN classrooms :
          /\ \A i \in DOMAIN ind.lectures :
               ~ ( /\ ind.lectures[i].day = day
                   /\ ind.lectures[i].slot_number = slot_number
                   /\ ind.lectures[i].room_id = classrooms[k].id )
          /\ \A i \in DOMAIN ind.mentoring :
               ~ ( /\ ind.mentoring[i].day = day
                   /\ ind.mentoring[i].slot_number = slot_number
                   /\ ind.mentoring[i].room_id = classrooms[k].id ) } }

\* find_available_lab that takes only an equal window for an overlap.
find_available_lab_same_window(labs, ind, day, start_slot, end_slot) ==
  { labs[k].id : k \in
      { k \in DOMAIN labs :
          \A i \in DOMAIN ind.practicals :
            ~ ( /\ ind.practicals[i].day = day
                /\ start_slot = ind.practicals[i].start_slot
                /\ end_slot = ind.practicals[i].end_slot
                /\ ind.practicals[i].room_id = labs[k].id ) } }

\* The ids random.choice(available_labs) may return; {} is None.
find_available_lab(labs, ind, day, start_slot, end_slot) ==
  { labs[k].id : k \in
      { k \in DOMAIN labs :
          \A i \in DOMAIN ind.practicals :
            ~ ( /\ ind.practicals[i].day = day
                /\ ~ ( \/ end_slot < ind.practicals[i].start_slot
                       \/ start_slot > ind.practicals[i].end_slot )
                /\ ind.practicals[i].room_id = labs[k].id ) } }

(***************************************************************************)
(* Session records, as create_individual appends them.                     *)
(***************************************************************************)
LectureRec(cs, room_id, day, slot_idx) ==
  [class_subject_id |-> cs.id, subject_id |-> cs.subject_id,
   faculty_id |-> cs.faculty_id, room_id |-> room_id, day |-> day,
   slot_number |-> slot_idx,
   start_time |-> time_slots[slot_idx + 1].start,
   end_time |-> time_slots[slot_idx + 1].end,
   session_type |-> "Lecture"]

PracticalRec(batch, cs, room_id, day, start_slot) ==
  [batch_id |-> batch.id, subject_id |-> cs.subject_id,
   faculty_id |-> cs.faculty_id, room_id |-> room_id, day |-> day,
   start_slot |-> start_slot, end_slot |-> start_slot + 1,
   start_time |-> time_slots[start_slot + 1].start,
   end_time |-> time_slots[start_slot + 2].end,
   session_type |-> "Practical"]

MentoringRec(batch, room_id, day, slot_idx) ==
  [batch_id |-> batch.id, faculty_id |-> batch.mentor_id,
   room_id |-> room_id, day |-> day, slot_number |-> slot_idx,
   start_time |-> time_slots[slot_idx + 1].start,
   end_time |-> time_slots[slot_idx + 1].end,
   session_type |-> "Mentoring"]

(***************************************************************************)
(* calculate_fitness, computed as the code computes it: dicts filled in    *)
(* list order, penalties added up.  A dict is a function on its keys.      *)
(***************************************************************************)
EmptyDict == [k \in {} |-> 0]

\* d[k] = d.get(k, 0) + w
DictAdd(d, k, w) ==
  IF k \in DOMAIN d THEN [d EXCEPT ![k] = @ + w] ELSE d @@ (k :> w)

\* d.get(k, 0)
DictGet(d, k) == IF k \in DOMAIN d THEN d[k] ELSE 0

RECURSIVE AddFacultyHours(_, _, _)
\* for s in sessions: fid = s['faculty_id']; if fid: hours[fid] += w
AddFacultyHours(d, sessions, w) ==
  IF sessions = << >> THEN d
  ELSE AddFacultyHours(
         IF Head(sessions).faculty_id # None
         THEN DictAdd(d, Head(sessions).faculty_id, w) ELSE d,
         Tail(sessions), w)

RECURSIVE AddSubjectHours(_, _, _)
\* for s in sessions: hours[s['subject_id']] += w
AddSubjectHours(d, sessions, w) ==
  IF sessions = << >> THEN d
  ELSE AddSubjectHours(DictAdd(d, Head(sessions).subject_id, w), Tail(sessions), w)

RECURSIVE OverloadPenalty_100_an_hour(_, _)
\* OverloadPenalty with 100 for every hour above 20 in place of 10.
OverloadPenalty_100_an_hour(d, keys) ==
  IF keys = {} THEN 0
  ELSE LET k == CHOOSE x \in keys : TRUE
       IN  (IF d[k] > 20 THEN (d[k] - 20) * 100 ELSE 0)
           + OverloadPenalty_100_an_hour(d, keys \ {k})

RECURSIVE OverloadPenalty(_, _)
\* for fid, hours in faculty_hours.items(): if hours > 20: += (hours - 20) * 10
OverloadPenalty(d, keys) ==
  IF keys = {} THEN 0
  ELSE LET k == CHOOSE x \in keys : TRUE
       IN  (IF d[k] > 20 THEN (d[k] - 20) * 10 ELSE 0)
           + OverloadPenalty(d, keys \ {k})

RECURSIVE RoomPenalty_without_slot(_, _)
\* RoomPenalty with the key (room_id, day): the slot left out of the key.
RoomPenalty_without_slot(lectures, room_schedule) ==
  IF lectures = << >> THEN 0
  ELSE LET l == Head(lectures)
           key == << l.room_id, l.day >>
       IN  (IF key \in room_schedule THEN 50 ELSE 0)
           + RoomPenalty_without_slot(Tail(lectures), room_schedule \cup {key})

RECURSIVE RoomPenalty(_, _)
\* for lecture in lectures: if key in room_schedule: += 50; room_schedule[key] = True
RoomPenalty(lectures, room_schedule) ==
  IF lectures = << >> THEN 0
  ELSE LET l == Head(lectures)
           key == << l.room_id, l.day, l.slot_number >>
       IN  (IF key \in room_schedule THEN 50 ELSE 0)
           + RoomPenalty(Tail(lectures), room_schedule \cup {key})

RECURSIVE SubjectPenalty_lecture_hours_doubled(_, _, _)
\* SubjectPenalty with required_lecture = lecture_slots_per_week * 2, as the
\* practical line has it.
SubjectPenalty_lecture_hours_doubled(class_subjects, subject_lecture_hours, subject_practical_hours) ==
  IF class_subjects = << >> THEN 0
  ELSE LET cs == Head(class_subjects)
           required_lecture == cs.lecture_slots_per_week * 2
           required_practical == cs.practical_slots_per_week * 2
           actual_lecture == DictGet(subject_lecture_hours, cs.subject_id)
           actual_practical == DictGet(subject_practical_hours, cs.subject_id)
       IN  (IF actual_lecture < required_lecture
            THEN (required_lecture - actual_lecture) * 30 ELSE 0)
           + (IF actual_practical < required_practical
              THEN (required_practical - actual_practical) * 40 ELSE 0)
           + SubjectPenalty_lecture_hours_doubled(
               Tail(class_subjects), subject_lecture_hours, subject_practical_hours)

RECURSIVE SubjectPenalty(_, _, _)
\* for class_subject in self.class_subjects: the two shortfall penalties
SubjectPenalty(class_subjects, subject_lecture_hours, subject_practical_hours) ==
  IF class_subjects = << >> THEN 0
  ELSE LET cs == Head(class_subjects)
           required_lecture == cs.lecture_slots_per_week
           required_practical == cs.practical_slots_per_week * 2
           actual_lecture == DictGet(subject_lecture_hours, cs.subject_id)
           actual_practical == DictGet(subject_practical_hours, cs.subject_id)
       IN  (IF actual_lecture < required_lecture
            THEN (required_lecture - actual_lecture) * 30 ELSE 0)
           + (IF actual_practical < required_practical
              THEN (required_practical - actual_practical) * 40 ELSE 0)
           + SubjectPenalty(Tail(class_subjects), subject_lecture_hours,
                            subject_practical_hours)

\* mentoring_count against len([b for b in self.batches if b.mentor_id])
MentoringPenalty(batches, mentoring) ==
  LET mentoring_count == Len(mentoring)
      required_mentoring == Cardinality({b \in DOMAIN batches : batches[b].mentor_id # None})
  IN  IF mentoring_count < required_mentoring
      THEN (required_mentoring - mentoring_count) * 100 ELSE 0

Penalties(r, ind) ==
  LET faculty_hours ==
        AddFacultyHours(
          AddFacultyHours(AddFacultyHours(EmptyDict, ind.lectures, 1), ind.practicals, 2),
          ind.mentoring, 1)
  IN  OverloadPenalty(faculty_hours, DOMAIN faculty_hours)
      + RoomPenalty(ind.lectures, {})
      + SubjectPenalty(r.class_subjects,
                       AddSubjectHours(EmptyDict, ind.lectures, 1),
                       AddSubjectHours(EmptyDict, ind.practicals, 2))
      + MentoringPenalty(r.batches, ind.mentoring)

\* calculate_fitness without the floor at 0.
calculate_fitness_no_floor(r, ind) == 1000 - Penalties(r, ind)

\* fitness = 1000; fitness -= penalties; return max(fitness, 0)
calculate_fitness(r, ind) == Max(1000 - Penalties(r, ind), 0)

(***************************************************************************)
(* Genetic operators, on individuals whose lectures are references.        *)
(***************************************************************************)
\* CrossoverList that takes b from one place past the split.
CrossoverList_past_split(a, b) ==
  IF a # << >> /\ b # << >>
  THEN Take(a, Len(a) \div 2) \o Drop(b, Len(a) \div 2 + 1)
  ELSE << >>

\* CrossoverList with the split at the middle of b, the second parent's list.
CrossoverList_split_of_b(a, b) ==
  IF a # << >> /\ b # << >>
  THEN Take(a, Len(b) \div 2) \o Drop(b, Len(b) \div 2)
  ELSE << >>

\* "if a and b: split = len(a) // 2; child = a[:split] + b[split:]", else []
CrossoverList(a, b) ==
  IF a # << >> /\ b # << >>
  THEN Take(a, Len(a) \div 2) \o Drop(b, Len(a) \div 2)
  ELSE << >>

crossover(parent1, parent2) ==
  [lectures |-> CrossoverList(parent1.lectures, parent2.lectures),
   practicals |-> CrossoverList(parent1.practicals, parent2.practicals),
   mentoring |-> CrossoverList(parent1.mentoring, parent2.mentoring)]

\* MutatedLectures whose slot branch also draws the room anew.
MutatedLectures_new_room(r, lecture) ==
  { [lecture EXCEPT !.day = d] : d \in r.days }
  \cup { [lecture EXCEPT !.slot_number = new_slot,
                         !.start_time = time_slots[new_slot + 1].start,
                         !.end_time = time_slots[new_slot + 1].end,
                         !.room_id = r.classrooms[k].id] :
           new_slot \in { sl \in lecture_slots : sl # 2 },
           k \in DOMAIN r.classrooms }

\* MutatedLectures whose slot branch leaves start_time and end_time as
\* they were.
MutatedLectures_stale_times(r, lecture) ==
  { [lecture EXCEPT !.day = d] : d \in r.days }
  \cup { [lecture EXCEPT !.slot_number = new_slot] :
           new_slot \in { sl \in lecture_slots : sl # 2 } }

\* The lecture dict after "lecture['day'] = random.choice(self.days)" or
\* after the slot branch, which also sets the two times.
MutatedLectures(r, lecture) ==
  { [lecture EXCEPT !.day = d] : d \in r.days }
  \cup { [lecture EXCEPT !.slot_number = new_slot,
                         !.start_time = time_slots[new_slot + 1].start,
                         !.end_time = time_slots[new_slot + 1].end] :
           new_slot \in { sl \in lecture_slots : sl # 2 } }

\* The heaps mutate(individual) may leave: unchanged when the list is empty
\* or random() >= 0.3, else one lecture dict of the individual rewritten in
\* place.  The individual itself (its lists) is returned as it was.
mutate(r, h, ind) ==
  {h} \cup UNION { { [h EXCEPT ![ind.lectures[idx]] = l] :
                         l \in MutatedLectures(r, h[ind.lectures[idx]]) } :
                     idx \in DOMAIN ind.lectures }

(***************************************************************************)
(* create_individual.  One action is one iteration of a placement loop;    *)
(* an iteration whose random (day, slot) is rejected changes nothing.      *)
(* The except branch (reset and retry, at most 50 times) is not modelled:  *)
(* with integer counts nothing in the try block raises.                    *)
(***************************************************************************)
\* for _ in range(20): the tries of one batch's mentoring placement.
MentoringTries == 20

RECURSIVE NormPos(_, _)
\* The next point of create_individual's loops at which a session is still
\* to be placed, from position p: the loop heads between are skipped.
NormPos(r, p) ==
  CASE p.phase = "lectures" ->
         IF p.c > Len(r.class_subjects)
         THEN NormPos(r, [phase |-> "practicals", b |-> 1, c |-> 1, n |-> 0])
         ELSE IF p.n >= r.class_subjects[p.c].lecture_slots_per_week
              THEN NormPos(r, [p EXCEPT !.c = @ + 1, !.n = 0])
              ELSE p
    [] p.phase = "practicals" ->
         IF p.b > Len(r.batches)
         THEN NormPos(r, [phase |-> "mentoring", b |-> 1, c |-> 1, n |-> 0])
         ELSE IF p.c > Len(r.class_subjects)
              THEN NormPos(r, [p EXCEPT !.b = @ + 1, !.c = 1, !.n = 0])
              ELSE IF p.n >= r.class_subjects[p.c].practical_slots_per_week
                   THEN NormPos(r, [p EXCEPT !.c = @ + 1, !.n = 0])
                   ELSE p
    [] p.phase = "mentoring" ->
         IF p.b > Len(r.batches)
         THEN [phase |-> "return", b |-> 1, c |-> 1, n |-> 0]
         ELSE IF r.batches[p.b].mentor_id = None
              THEN NormPos(r, [p EXCEPT !.b = @ + 1])
              ELSE p
    [] OTHER -> p

StartPos(r) == NormPos(r, [phase |-> "lectures", b |-> 1, c |-> 1, n |-> 0])

IdlePos == [phase |-> "idle", b |-> 1, c |-> 1, n |-> 0]

\* "if slot_idx == 2 / if faculty_busy / if not classroom: continue"
LectureRejected(r, ind, faculty_id, day, slot_idx) ==
  \/ slot_idx = 2
  \/ check_faculty_busy(ind, faculty_id, day, slot_idx)
  \/ find_available_classroom(r.classrooms, ind, day, slot_idx) = {}

\* "if end_slot > 6 / if faculty_busy / if not lab: continue"
PracticalRejected(r, ind, faculty_id, day, start_slot) ==
  \/ start_slot + 1 > 6
  \/ check_faculty_busy(ind, faculty_id, day, start_slot)
  \/ check_faculty_busy(ind, faculty_id, day, start_slot + 1)
  \/ find_available_lab(r.labs, ind, day, start_slot, start_slot + 1) = {}

\* One iteration of "while scheduled < lecture_count".
ScheduleLecture ==
  /\ pc = "create_individual"
  /\ pos.phase = "lectures"
  /\ \E day \in req.days, slot_idx \in lecture_slots :
       LET cs == req.class_subjects[pos.c]
           ind == Deref(heap, individual)
       IN  IF LectureRejected(req, ind, cs.faculty_id, day, slot_idx)
           THEN UNCHANGED << heap, individual, pos >>
           ELSE \E room_id \in find_available_classroom(req.classrooms, ind, day, slot_idx) :
                  /\ heap' = Append(heap, LectureRec(cs, room_id, day, slot_idx))
                  /\ individual' = [individual EXCEPT
                                      !.lectures = Append(@, Len(heap) + 1)]
                  /\ pos' = NormPos(req, [pos EXCEPT !.n = @ + 1])
  /\ UNCHANGED << req, ret, evolve_vars, pure_vars >>

\* One iteration of "while scheduled < practical_count".
SchedulePractical ==
  /\ pc = "create_individual"
  /\ pos.phase = "practicals"
  /\ \E day \in req.days, start_slot \in practical_starts :
       LET cs == req.class_subjects[pos.c]
           ind == Deref(heap, individual)
       IN  IF PracticalRejected(req, ind, cs.faculty_id, day, start_slot)
           THEN UNCHANGED << individual, pos >>
           ELSE \E room_id \in find_available_lab(req.labs, ind, day, start_slot, start_slot + 1) :
                  /\ individual' = [individual EXCEPT
                                      !.practicals = Append(@,
                                         PracticalRec(req.batches[pos.b], cs, room_id, day, start_slot))]
                  /\ pos' = NormPos(req, [pos EXCEPT !.n = @ + 1])
  /\ UNCHANGED << heap, req, ret, evolve_vars, pure_vars >>

\* The whole "for _ in range(20)" of one mentored batch: the first try that
\* is not rejected places the session; when every try is rejected (each try
\* may draw any rejected (day, slot)) the batch gets none.
ScheduleMentoring ==
  /\ pc = "create_individual"
  /\ pos.phase = "mentoring"
  /\ LET batch == req.batches[pos.b]
         ind == Deref(heap, individual)
         rejected == { ds \in req.days \X lecture_slots :
                         LectureRejected(req, ind, batch.mentor_id, ds[1], ds[2]) }
     IN  \/ /\ MentoringTries > 0
            /\ \E ds \in (req.days \X lecture_slots) \ rejected :
                 \E room_id \in find_available_classroom(req.classrooms, ind, ds[1], ds[2]) :
                   individual' = [individual EXCEPT
                                    !.mentoring = Append(@,
                                       MentoringRec(batch, room_id, ds[1], ds[2]))]
         \/ /\ MentoringTries = 0 \/ rejected # {}
            /\ UNCHANGED individual
  /\ pos' = NormPos(req, [pos EXCEPT !.b = @ + 1])
  /\ UNCHANGED << heap, req, ret, evolve_vars, pure_vars >>

\* "return individual" to a caller outside evolve.
ReturnIndividual ==
  /\ pc = "create_individual"
  /\ pos.phase = "return"
  /\ ret = "caller"
  /\ pc' = "returned"
  /\ pos' = IdlePos
  /\ UNCHANGED << req, params, heap, individual, ret, population, fitness_scores,
                  next_generation, generation, best_solution, best_fitness,
                  elites_at_select, pure_vars >>

(***************************************************************************)
(* Specification of one create_individual call.                            *)
(***************************************************************************)
\* Two subjects of different faculty, one lecture each, two classrooms.
RequestTwoRooms ==
  Request(NumDays, << ClassSubject(1, 1, 1, 0), ClassSubject(2, 2, 1, 0) >>, << >>,
          << Room(1, "Classroom"), Room(2, "Classroom") >>)

\* A lecture and a practical per batch for one faculty, a mentored and an
\* unmentored batch, one classroom, two labs.
RequestFull ==
  Request(NumDays, << ClassSubject(1, 1, 1, 1) >>, << Batch(1, 1), Batch(2, None) >>,
          << Room(1, "Classroom"), Room(2, "Lab"), Room(3, "Lab") >>)

\* One faculty with more practicals than the week has days: two practical
\* windows of a day share slot 5, so a faculty (and a lab) takes one a day.
RequestTooManyPracticals ==
  Request(NumDays, << ClassSubject(1, 1, 0, NumDays + 1) >>, << Batch(1, None) >>,
          << Room(1, "Classroom"), Room(2, "Lab") >>)

\* More practicals, over the batches, than lab/day capacity (no faculty).
RequestTooFewLabs ==
  Request(NumDays, << ClassSubject(1, None, 0, 1) >>,
          [b \in 1 .. NumDays + 1 |-> Batch(b, None)],
          << Room(1, "Classroom"), Room(2, "Lab") >>)

\* A practical for each of two batches, no faculty, two labs.
RequestTwoLabs ==
  Request(NumDays, << ClassSubject(1, None, 0, 1) >>, << Batch(1, None), Batch(2, None) >>,
          << Room(1, "Classroom"), Room(2, "Lab"), Room(3, "Lab") >>)

\* No room at all: the placeholders stand in.
RequestNoRooms ==
  Request(NumDays, << ClassSubject(1, 1, 1, 1) >>, << Batch(1, 2) >>, << >>)

\* A classroom but no lab, and more practicals, over the batches, than the
\* placeholder lab has days (no faculty).
RequestNoLabManyPracticals ==
  Request(NumDays, << ClassSubject(1, None, 0, 1) >>,
          [b \in 1 .. NumDays + 1 |-> Batch(b, None)],
          << Room(1, "Classroom") >>)

BuildRequests ==
  { RequestTwoRooms, RequestFull, RequestTwoLabs, RequestTooManyPracticals,
    RequestTooFewLabs, RequestNoRooms, RequestNoLabManyPracticals }

NoParams == [population_size |-> 0, generations |-> 0, mutation_rate |-> 0,
             elite_size |-> 0]

EvolveIdle ==
  /\ params = NoParams
  /\ population = << >>
  /\ fitness_scores = << >>
  /\ next_generation = << >>
  /\ generation = 0
  /\ best_solution = << >>
  /\ best_fitness = NegInf
  /\ elites_at_select = << >>

PureIdle ==
  /\ arg = None
  /\ out = None

InitBuild ==
  /\ req \in BuildRequests
  /\ heap = << >>
  /\ individual = EmptyIndividual
  /\ pos = StartPos(req)
  /\ ret = "caller"
  /\ pc = "create_individual"
  /\ EvolveIdle
  /\ PureIdle

NextBuild ==
  \/ ScheduleLecture
  \/ SchedulePractical
  \/ ScheduleMentoring
  \/ ReturnIndividual

SpecBuild == InitBuild /\ [][NextBuild]_vars

(***************************************************************************)
(* evolve.                                                                 *)
(***************************************************************************)
\* "if len(fitness_scores) > 10": the candidates a tournament draws from.
TournamentSize == 10

RECURSIVE InsertByFitness(_, _)
\* e placed after every entry whose fitness is not smaller (the sort is stable).
InsertByFitness(sorted, e) ==
  IF sorted = << >> THEN << e >>
  ELSE IF Head(sorted).fitness >= e.fitness
       THEN << Head(sorted) >> \o InsertByFitness(Tail(sorted), e)
       ELSE << e >> \o sorted

RECURSIVE SortByFitness(_, _)
\* fitness_scores.sort(key=lambda x: x[0], reverse=True)
SortByFitness(sorted, rest) ==
  IF rest = << >> THEN sorted
  ELSE SortByFitness(InsertByFitness(sorted, Head(rest)), Tail(rest))

\* The scored population, sorted.
ScorePopulation(r, h, pop) ==
  SortByFitness(<< >>,
    [i \in DOMAIN pop |->
       [fitness |-> calculate_fitness(r, Deref(h, pop[i])), ind |-> pop[i]]])

\* "if fitness_scores[0][0] > self.best_fitness" with the test for a change
\* in place of the test for an improvement.
BetterThanBest_any_change(top, best) == top # best

\* "if fitness_scores[0][0] > self.best_fitness"
BetterThanBest(top, best) == top > best

\* deepcopy left out: the best so far is the population's own individual.
DeepCopy_no_copy(h, ind) == [heap |-> h, ind |-> ind]

\* copy.deepcopy(ind): every lecture dict of ind copied once into the heap
\* (a dict the list holds twice is copied once), and ind over the copies.
DeepCopy(h, ind) ==
  LET refs == ind.lectures
      first(i) == CHOOSE j \in 1 .. i :
                    /\ refs[j] = refs[i]
                    /\ \A k \in 1 .. (j - 1) : refs[k] # refs[i]
      firsts == { i \in DOMAIN refs : first(i) = i }
      rank(i) == Cardinality({ j \in firsts : j <= first(i) })
  IN  [heap |-> h \o [k \in 1 .. Cardinality(firsts) |->
                        h[refs[CHOOSE j \in firsts : rank(j) = k]]],
       ind |-> [ind EXCEPT !.lectures = [i \in DOMAIN refs |-> Len(h) + rank(i)]]]

\* The running best as the code reads it: its lectures dereferenced.
BestValue == [i \in DOMAIN best_solution |-> Deref(heap, best_solution[i])]

\* The outcomes of "random.random() < mutation_rate" (rate in percent).
MutationDraws(mutation_rate) ==
  IF mutation_rate <= 0 THEN {FALSE}
  ELSE IF mutation_rate >= 100 THEN {TRUE} ELSE {TRUE, FALSE}

\* The parent pairs the selection may draw from the scored population when
\* no fresh individual is needed.
ParentChoices(scores) ==
  IF Len(scores) > TournamentSize
  THEN { << scores[i].ind, scores[j].ind >> : i, j \in 1 .. TournamentSize }
  ELSE IF Len(scores) > 1
       THEN { << scores[1].ind, scores[2].ind >> }
       ELSE {}

(***************************************************************************)
(* The lecture dicts nothing refers to any more are freed, as Python frees *)
(* them, and the references renumbered in the order the program's          *)
(* variables reach them: a reference's number is not observable.           *)
(***************************************************************************)
RECURSIVE AllRefs(_)
\* The lecture references of a list of individuals, in order.
AllRefs(inds) ==
  IF inds = << >> THEN << >> ELSE Head(inds).lectures \o AllRefs(Tail(inds))

RECURSIVE FirstOccurrences(_, _)
FirstOccurrences(refs, seen) ==
  IF refs = << >> THEN << >>
  ELSE IF Head(refs) \in seen
       THEN FirstOccurrences(Tail(refs), seen)
       ELSE << Head(refs) >> \o FirstOccurrences(Tail(refs), seen \cup {Head(refs)})

\* st: the heap and every variable that holds individuals.
Collect(st) ==
  LET roots == st.best_solution \o st.population \o st.next_generation
               \o [i \in DOMAIN st.fitness_scores |-> st.fitness_scores[i].ind]
               \o << st.individual >>
      live == FirstOccurrences(AllRefs(roots), {})
      new == [r \in Range(live) |-> CHOOSE k \in DOMAIN live : live[k] = r]
      move(ind) == [ind EXCEPT !.lectures = [i \in DOMAIN @ |-> new[@[i]]]]
  IN  [heap |-> [k \in DOMAIN live |-> st.heap[live[k]]],
       best_solution |-> [i \in DOMAIN st.best_solution |->
                            move(st.best_solution[i])],
       population |-> [i \in DOMAIN st.population |-> move(st.population[i])],
       next_generation |-> [i \in DOMAIN st.next_generation |->
                              move(st.next_generation[i])],
       fitness_scores |-> [i \in DOMAIN st.fitness_scores |->
                             [st.fitness_scores[i] EXCEPT !.ind = move(@)]],
       individual |-> move(st.individual)]

\* The variables that hold individuals, after a step that left them as st.
Store(st) ==
  LET c == Collect(st)
  IN  /\ heap' = c.heap
      /\ best_solution' = c.best_solution
      /\ population' = c.population
      /\ next_generation' = c.next_generation
      /\ fitness_scores' = c.fitness_scores
      /\ individual' = c.individual

\* create_individual returns to the population loop of evolve: the
\* individual is appended, and the next one begun or the generations start.
ReturnToPopulation ==
  /\ pc = "create_individual"
  /\ pos.phase = "return"
  /\ ret = "population"
  /\ population' = Append(population, individual)
  /\ individual' = EmptyIndividual
  /\ IF Len(population) + 1 < params.population_size
     THEN /\ pos' = StartPos(req)
          /\ pc' = "create_individual"
     ELSE /\ pos' = IdlePos
          /\ pc' = "Evaluating"
  /\ UNCHANGED << req, params, heap, ret, fitness_scores, next_generation,
                  generation, best_solution, best_fitness, elites_at_select,
                  pure_vars >>

\* Evaluating and Selecting: score and sort the population, update the best
\* so far, take the elites into the next generation.
Evaluate ==
  /\ pc = "Evaluating"
  /\ LET scores == ScorePopulation(req, heap, population)
         better == BetterThanBest(scores[1].fitness, best_fitness)
         copy == DeepCopy(heap, scores[1].ind)
         elites == [i \in 1 .. (IF params.elite_size <= Len(scores)
                                THEN params.elite_size ELSE Len(scores)) |->
                      scores[i].ind]
     IN  /\ best_fitness' = IF better THEN scores[1].fitness ELSE best_fitness
         /\ elites_at_select' = [i \in DOMAIN elites |-> Deref(heap, elites[i])]
         /\ Store([heap |-> IF better THEN copy.heap ELSE heap,
                   best_solution |-> IF better THEN << copy.ind >> ELSE best_solution,
                   population |-> population,
                   next_generation |-> elites,
                   fitness_scores |-> scores,
                   individual |-> individual])
  /\ pc' = "Reproducing"
  /\ UNCHANGED << req, params, pos, ret, generation, pure_vars >>

\* crossover, "if random.random() < mutation_rate: child = self.mutate(child)",
\* next_generation.append(child); and, when the child fills the next
\* generation, "self.population = next_generation" and the next turn of the
\* generation loop (or "return self.best_solution" after the last), where
\* fitness_scores and next_generation are dead until they are assigned anew.
AppendChild(parent1, parent2) ==
  LET child == crossover(parent1, parent2)
      full == Len(next_generation) + 1 >= params.population_size
  IN  /\ \E draw \in MutationDraws(params.mutation_rate) :
           \E h \in (IF draw THEN mutate(req, heap, child) ELSE {heap}) :
             Store([heap |-> h,
                    best_solution |-> best_solution,
                    population |-> IF full THEN Append(next_generation, child)
                                   ELSE population,
                    next_generation |-> IF full THEN << >>
                                        ELSE Append(next_generation, child),
                    fitness_scores |-> IF full THEN << >> ELSE fitness_scores,
                    individual |-> EmptyIndividual])
      /\ generation' = IF full THEN generation + 1 ELSE generation
      /\ pc' = IF ~ full THEN "Reproducing"
               ELSE IF generation + 1 < params.generations THEN "Evaluating"
                    ELSE "Done"

\* One iteration of "while len(next_generation) < population_size" whose
\* parents both come from the scored population.
Reproduce ==
  /\ pc = "Reproducing"
  /\ Len(next_generation) < params.population_size
  /\ \E parents \in ParentChoices(fitness_scores) :
       AppendChild(parents[1], parents[2])
  /\ UNCHANGED << req, params, pos, ret, best_fitness, elites_at_select,
                  pure_vars >>

\* The same iteration when the population has a single candidate:
\* "parent2 = ... else self.create_individual()" is called first.
CreateParent ==
  /\ pc = "Reproducing"
  /\ Len(next_generation) < params.population_size
  /\ Len(fitness_scores) <= TournamentSize
  /\ Len(fitness_scores) <= 1
  /\ individual' = EmptyIndividual
  /\ pos' = StartPos(req)
  /\ ret' = "parent2"
  /\ pc' = "create_individual"
  /\ UNCHANGED << req, params, heap, population, fitness_scores,
                  next_generation, generation, best_solution, best_fitness,
                  elites_at_select, pure_vars >>

\* create_individual returns parent2; the iteration goes on to its child.
ReturnToParent ==
  /\ pc = "create_individual"
  /\ pos.phase = "return"
  /\ ret = "parent2"
  /\ AppendChild(fitness_scores[1].ind, individual)
  /\ pos' = IdlePos
  /\ ret' = "population"
  /\ UNCHANGED << req, params, best_fitness, elites_at_select, pure_vars >>

\* The generation loop's turn when the elites alone fill the next
\* generation (the while loop is not entered).
NextGeneration ==
  /\ pc = "Reproducing"
  /\ Len(next_generation) >= params.population_size
  /\ Store([heap |-> heap,
            best_solution |-> best_solution,
            population |-> next_generation,
            next_generation |-> << >>,
            fitness_scores |-> << >>,
            individual |-> individual])
  /\ generation' = generation + 1
  /\ pc' = IF generation + 1 < params.generations THEN "Evaluating" ELSE "Done"
  /\ UNCHANGED << req, params, pos, ret, best_fitness, elites_at_select,
                  pure_vars >>

(***************************************************************************)
(* Specification of evolve runs.                                           *)
(***************************************************************************)
\* Population size and generation count of the checked runs.
PopulationSize == 2

Generations == 2

\* One subject of two lectures a week, one faculty, one classroom.
RequestTwoLectures ==
  Request(RunDays, << ClassSubject(1, 1, 2, 0) >>, << >>, << Room(1, "Classroom") >>)

\* One lecture a week.
RequestOneLecture ==
  Request(NumDays, << ClassSubject(1, 1, 1, 0) >>, << >>, << Room(1, "Classroom") >>)

\* One practical and one mentored batch.
RequestPractical ==
  Request(NumDays, << ClassSubject(1, 1, 0, 1) >>, << Batch(1, 1) >>,
          << Room(1, "Classroom"), Room(2, "Lab") >>)

\* Scenario A: one subject of 3 lectures a week, one faculty, two classrooms.
RequestScenarioA ==
  Request(RunDays, << ClassSubject(1, 1, 3, 0) >>, << >>,
          << Room(1, "Classroom"), Room(2, "Classroom") >>)

\* Scenario C: two subjects of 3 lectures a week each, the same faculty,
\* one classroom.
RequestScenarioC ==
  Request(RunDays, << ClassSubject(1, 1, 3, 0), ClassSubject(2, 1, 3, 0) >>, << >>,
          << Room(1, "Classroom") >>)

\* One practical a week for one batch, no faculty: a candidate is its
\* practical's day and window.
RequestOnePractical ==
  Request(RunDays, << ClassSubject(1, None, 0, 1) >>, << Batch(1, None) >>,
          << Room(1, "Classroom"), Room(2, "Lab") >>)

Params(p, g, m, e) ==
  [population_size |-> p, generations |-> g, mutation_rate |-> m, elite_size |-> e]

EvolveRuns ==
  { << RequestTwoLectures, Params(PopulationSize, Generations, 20, 1) >>,
    << RequestOneLecture, Params(1, Generations, 100, 0) >>,
    << RequestPractical, Params(PopulationSize, 1, 20, PopulationSize) >>,
    << RequestTooManyPracticals, Params(1, 1, 20, 0) >>,
    << RequestScenarioA, Params(1, Generations, 20, 1) >>,
    << RequestScenarioC, Params(1, 1, 20, 1) >>,
    << RequestOnePractical, Params(TournamentSize, 1, 0, TournamentSize - 1) >> }

Init ==
  /\ \E run \in EvolveRuns :
       /\ req = run[1]
       /\ params = run[2]
  /\ heap = << >>
  /\ individual = EmptyIndividual
  /\ pos = StartPos(req)
  /\ ret = "population"
  /\ pc = "create_individual"
  /\ population = << >>
  /\ fitness_scores = << >>
  /\ next_generation = << >>
  /\ generation = 0
  /\ best_solution = << >>
  /\ best_fitness = NegInf
  /\ elites_at_select = << >>
  /\ PureIdle

Next ==
  \/ ScheduleLecture
  \/ SchedulePractical
  \/ ScheduleMentoring
  \/ ReturnToPopulation
  \/ Evaluate
  \/ Reproduce
  \/ CreateParent
  \/ ReturnToParent
  \/ NextGeneration

Spec == Init /\ [][Next]_vars

(***************************************************************************)
(* Specification of calculate_fitness as a function: a candidate is drawn  *)
(* from a bounded family, scored, given one more lecture of a subject that *)
(* has fewer than required, and scored again.                              *)
(***************************************************************************)
\* The most practicals, all alike, at the head of a drawn candidate.
MaxBulkPracticals == 11

\* The most lectures of a drawn candidate.
MaxFitLectures == 2

\* Two subjects of different faculty, a mentored and an unmentored batch.
FitRequestTwoSubjects ==
  Request(NumDays, << ClassSubject(1, 1, 2, 1), ClassSubject(2, 2, 1, 0) >>,
          << Batch(1, 1), Batch(2, None) >>,
          << Room(1, "Classroom"), Room(2, "Lab") >>)

\* A subject whose missing lectures alone cost more than 1000, without faculty.
FitRequestManyLectures ==
  Request(NumDays, << ClassSubject(1, None, 35, 0) >>, << Batch(1, 1) >>,
          << Room(1, "Classroom"), Room(2, "Lab") >>)

FitRequests == { FitRequestTwoSubjects, FitRequestManyLectures }

\* The sequences over S of length at most n.
SeqsUpTo(S, n) == UNION { [1 .. k -> S] : k \in 0 .. n }

\* The drawn candidates of request r: up to MaxBulkPracticals equal
\* practicals of the first subject, up to MaxFitLectures lectures on the
\* first day's first two slots (room conflicts included), and the first
\* batch's mentoring session or none.
FitCandidates(r) ==
  LET lectures == { LectureRec(r.class_subjects[c], r.classrooms[1].id, 1, sl) :
                      c \in DOMAIN r.class_subjects, sl \in {0, 1} }
      practical == PracticalRec(r.batches[1], r.class_subjects[1], r.labs[1].id, 1, 4)
      mentoring == MentoringRec(r.batches[1], r.classrooms[1].id, 1, 3)
  IN  { [lectures |-> ls, practicals |-> [k \in 1 .. n |-> practical], mentoring |-> ms] :
          ls \in SeqsUpTo(lectures, MaxFitLectures),
          n \in 0 .. MaxBulkPracticals,
          ms \in { << >>, << mentoring >> } }

\* The subject assignments with fewer lectures in ind than required.
UnderProvided(r, ind) ==
  { c \in DOMAIN r.class_subjects :
      Cardinality({ i \in DOMAIN ind.lectures :
                      ind.lectures[i].subject_id = r.class_subjects[c].subject_id })
        < r.class_subjects[c].lecture_slots_per_week }

InitFit ==
  /\ req \in FitRequests
  /\ arg \in { [ind |-> c, added |-> FALSE, clean |-> TRUE] : c \in FitCandidates(req) }
  /\ out = << >>
  /\ pc = "calculate_fitness"
  /\ heap = << >>
  /\ individual = EmptyIndividual
  /\ pos = IdlePos
  /\ ret = "caller"
  /\ EvolveIdle

\* A call of calculate_fitness on the candidate; out keeps the results.
FitnessCall ==
  /\ pc = "calculate_fitness"
  /\ out' = Append(out, calculate_fitness(req, arg.ind))
  /\ pc' = "scored"
  /\ UNCHANGED << req, arg, heap, individual, pos, ret, params, population,
                  fitness_scores, next_generation, generation, best_solution,
                  best_fitness, elites_at_select >>

\* One lecture of an under-provided subject appended (as create_individual
\* appends it), at any slot of the first day; clean records whether the
\* faculty was free and the room not taken there.
AddMissingLecture ==
  /\ pc = "scored"
  /\ ~ arg.added
  /\ \E c \in UnderProvided(req, arg.ind), sl \in {0, 1, 3} :
       LET cs == req.class_subjects[c]
           room_id == req.classrooms[1].id
       IN  arg' = [ind |-> [arg.ind EXCEPT
                              !.lectures = Append(@, LectureRec(cs, room_id, 1, sl))],
                   added |-> TRUE,
                   clean |-> /\ ~ check_faculty_busy(arg.ind, cs.faculty_id, 1, sl)
                             /\ room_id \in find_available_classroom(
                                              req.classrooms, arg.ind, 1, sl)]
  /\ pc' = "calculate_fitness"
  /\ UNCHANGED << req, out, heap, individual, pos, ret, params, population,
                  fitness_scores, next_generation, generation, best_solution,
                  best_fitness, elites_at_select >>

NextFit ==
  \/ FitnessCall
  \/ AddMissingLecture

SpecFit == InitFit /\ [][NextFit]_vars

(***************************************************************************)
(* Specification of the genetic operators on built candidates: a candidate *)
(* is built and mutated, or a second one is built and the two crossed, as  *)
(* one iteration of evolve's offspring loop does.                          *)
(***************************************************************************)
\* One subject of two lectures a week, one faculty, two classrooms.
RequestTwoLecturesTwoRooms ==
  Request(RunDays, << ClassSubject(1, 1, 2, 0) >>, << >>,
          << Room(1, "Classroom"), Room(2, "Classroom") >>)

\* A lecture and a practical of one faculty, one batch with another mentor.
RequestLecturePracticalMentoring ==
  Request(RunDays, << ClassSubject(1, 1, 1, 1) >>, << Batch(1, 2) >>,
          << Room(1, "Classroom"), Room(2, "Lab") >>)

OpsRequests == { RequestTwoLecturesTwoRooms, RequestLecturePracticalMentoring }

InitOps ==
  /\ req \in OpsRequests
  /\ heap = << >>
  /\ individual = EmptyIndividual
  /\ pos = StartPos(req)
  /\ ret = "first"
  /\ pc = "create_individual"
  /\ EvolveIdle
  /\ PureIdle

\* create_individual returns the first candidate.
ReturnFirst ==
  /\ pc = "create_individual"
  /\ pos.phase = "return"
  /\ ret = "first"
  /\ population' = << individual >>
  /\ individual' = EmptyIndividual
  /\ pos' = IdlePos
  /\ pc' = "built"
  /\ UNCHANGED << req, params, heap, ret, fitness_scores, next_generation,
                  generation, best_solution, best_fitness, elites_at_select,
                  pure_vars >>

\* mutate(candidate) on the built candidate; arg keeps what it was before.
MutateCall ==
  /\ pc = "built"
  /\ arg' = Deref(heap, population[1])
  /\ heap' \in mutate(req, heap, population[1])
  /\ pc' = "mutated"
  /\ UNCHANGED << req, params, individual, pos, ret, population, fitness_scores,
                  next_generation, generation, best_solution, best_fitness,
                  elites_at_select, out >>

\* create_individual is called for the second candidate.
BuildSecond ==
  /\ pc = "built"
  /\ pos' = StartPos(req)
  /\ ret' = "second"
  /\ pc' = "create_individual"
  /\ UNCHANGED << req, params, heap, individual, population, fitness_scores,
                  next_generation, generation, best_solution, best_fitness,
                  elites_at_select, pure_vars >>

\* create_individual returns the second candidate, and
\* child = self.crossover(parent1, parent2).
CrossoverCall ==
  /\ pc = "create_individual"
  /\ pos.phase = "return"
  /\ ret = "second"
  /\ population' = Append(population, individual)
  /\ next_generation' = << crossover(population[1], individual) >>
  /\ individual' = EmptyIndividual
  /\ pos' = IdlePos
  /\ pc' = "crossed"
  /\ UNCHANGED << req, params, heap, ret, fitness_scores, generation,
                  best_solution, best_fitness, elites_at_select, pure_vars >>

NextOps ==
  \/ ScheduleLecture
  \/ SchedulePractical
  \/ ScheduleMentoring
  \/ ReturnFirst
  \/ MutateCall
  \/ BuildSecond
  \/ CrossoverCall

SpecOps == InitOps /\ [][NextOps]_vars

(***************************************************************************)
(* Specification of the crossover of two built candidates whose mentoring  *)
(* lists may differ: a mentoring session is given up when every try draws  *)
(* a (day, slot) at which the mentor or the classroom is taken.            *)
(***************************************************************************)
\* One lecture a week, three batches with a mentor each, one classroom.
RequestThreeMentors ==
  Request(RunDays, << ClassSubject(1, 4, 1, 0) >>,
          << Batch(1, 1), Batch(2, 2), Batch(3, 3) >>,
          << Room(1, "Classroom") >>)

InitMentoring ==
  /\ req = RequestThreeMentors
  /\ heap = << >>
  /\ individual = EmptyIndividual
  /\ pos = StartPos(req)
  /\ ret = "first"
  /\ pc = "create_individual"
  /\ EvolveIdle
  /\ PureIdle

NextMentoring ==
  \/ ScheduleLecture
  \/ ScheduleMentoring
  \/ ReturnFirst
  \/ BuildSecond
  \/ CrossoverCall

SpecMentoring == InitMentoring /\ [][NextMentoring]_vars

(***************************************************************************)
(* Specification of crossover as a function of the parents' lists, whose   *)
(* elements it moves without reading them.                                 *)
(***************************************************************************)
\* The longest session list of a drawn parent.
MaxListLen == 3

\* A parent whose lists have the lengths n.lectures, n.practicals and
\* n.mentoring; a session is named by its parent and its place.
ParentOfLengths(name, n) ==
  [lectures |-> [i \in 1 .. n.lectures |-> << name, "lecture", i >>],
   practicals |-> [i \in 1 .. n.practicals |-> << name, "practical", i >>],
   mentoring |-> [i \in 1 .. n.mentoring |-> << name, "mentoring", i >>]]

InitCross ==
  /\ \E n1, n2 \in [lectures : 0 .. MaxListLen, practicals : 0 .. MaxListLen,
                    mentoring : 0 .. MaxListLen] :
       arg = [parent1 |-> ParentOfLengths("parent1", n1),
              parent2 |-> ParentOfLengths("parent2", n2)]
  /\ out = None
  /\ pc = "crossover"
  /\ req = RequestTwoLecturesTwoRooms
  /\ heap = << >>
  /\ individual = EmptyIndividual
  /\ pos = IdlePos
  /\ ret = "caller"
  /\ EvolveIdle

\* child = crossover(parent1, parent2)
CrossoverOfLists ==
  /\ pc = "crossover"
  /\ out' = crossover(arg.parent1, arg.parent2)
  /\ pc' = "child"
  /\ UNCHANGED << req, arg, heap, individual, pos, ret, params, population,
                  fitness_scores, next_generation, generation, best_solution,
                  best_fitness, elites_at_select >>

NextCross == CrossoverOfLists

SpecCross == InitCross /\ [][NextCross]_vars

(***************************************************************************)
(* save_to_database.  The database is the two tables the method writes     *)
(* (committed rows) and the session's rows added but not yet committed.    *)
(***************************************************************************)
\* self.class_id: the class the timetable is generated for.
class_id == 1

\* A Timetable row; the columns a constructor call leaves out are None.
TimetableRow(cid, day, slot_number, start_time, end_time, subject_id, faculty_id, room_id, batch_id, session_type, is_break) ==
  [class_id |-> cid, day |-> day, slot_number |-> slot_number,
   start_time |-> start_time, end_time |-> end_time, subject_id |-> subject_id,
   faculty_id |-> faculty_id, room_id |-> room_id, batch_id |-> batch_id,
   session_type |-> session_type, is_break |-> is_break]

\* Timetable(...) of the lecture loop.
LectureRow(lecture) ==
  TimetableRow(class_id, lecture.day, lecture.slot_number, lecture.start_time,
               lecture.end_time, lecture.subject_id, lecture.faculty_id,
               lecture.room_id, None, "Lecture", FALSE)

\* PracticalSlot(...) of the practical loop.
PracticalSlotRow(practical) ==
  [class_id |-> class_id, batch_id |-> practical.batch_id,
   subject_id |-> practical.subject_id, faculty_id |-> practical.faculty_id,
   room_id |-> practical.room_id, day |-> practical.day,
   start_time |-> practical.start_time, end_time |-> practical.end_time]

\* Timetable(...) of the practical loop ("Also add to timetable").
PracticalRow(practical) ==
  TimetableRow(class_id, practical.day, practical.start_slot, practical.start_time,
               practical.end_time, practical.subject_id, practical.faculty_id,
               practical.room_id, practical.batch_id, "Practical", FALSE)

\* Timetable(...) of the break loop.
LunchRow(day) ==
  TimetableRow(class_id, day, 2, "11:50", "12:40", None, None, None, None,
               "Break", TRUE)

RECURSIVE RowsOfOtherClasses(_)
\* What "query.filter_by(class_id=self.class_id).delete()" leaves of a table.
RowsOfOtherClasses(rows) ==
  IF rows = << >> THEN << >>
  ELSE IF Head(rows).class_id = class_id
       THEN RowsOfOtherClasses(Tail(rows))
       ELSE << Head(rows) >> \o RowsOfOtherClasses(Tail(rows))

\* The tables before the call: empty, or holding an earlier timetable of
\* this class and a row of another class.  The variable out keeps them in
\* its field before, which no step of the method reads or writes.
StoredBefore ==
  LET stale == TimetableRow(class_id, 1, 6, "16:10", "17:10", 2, 2, 1, None,
                            "Lecture", FALSE)
      other == TimetableRow(class_id + 1, 1, 0, "09:40", "10:40", 1, 1, 1, None,
                            "Lecture", FALSE)
      stale_slot == [class_id |-> class_id, batch_id |-> 2, subject_id |-> 2,
                     faculty_id |-> 2, room_id |-> 2, day |-> 1,
                     start_time |-> "15:00", end_time |-> "17:10"]
  IN  { [timetable |-> << >>, practical_slot |-> << >>],
        [timetable |-> << stale, LunchRow(1), other >>,
         practical_slot |-> << stale_slot >>] }

NoSession == [timetable |-> << >>, practical_slot |-> << >>]

InitSave ==
  /\ req = FitRequestTwoSubjects
  /\ arg \in FitCandidates(req)
  /\ \E db \in StoredBefore :
       out = [timetable |-> db.timetable, practical_slot |-> db.practical_slot,
              session |-> NoSession, before |-> db]
  /\ pc = "save_to_database"
  /\ heap = << >>
  /\ individual = EmptyIndividual
  /\ pos = IdlePos
  /\ ret = "caller"
  /\ EvolveIdle

\* The two deletes and the first db.session.commit().
SaveClear ==
  /\ pc = "save_to_database"
  /\ out' = [out EXCEPT !.timetable = RowsOfOtherClasses(@),
                        !.practical_slot = RowsOfOtherClasses(@)]
  /\ pc' = "save_sessions"
  /\ UNCHANGED << req, arg, heap, individual, pos, ret, params, population,
                  fitness_scores, next_generation, generation, best_solution,
                  best_fitness, elites_at_select >>

\* The lecture loop and the practical loop: db.session.add of every row.
SaveLecturesAndPracticals ==
  /\ pc = "save_sessions"
  /\ out' = [out EXCEPT
               !.session.timetable =
                  @ \o [i \in DOMAIN arg.lectures |-> LectureRow(arg.lectures[i])]
                    \o [i \in DOMAIN arg.practicals |-> PracticalRow(arg.practicals[i])],
               !.session.practical_slot =
                  @ \o [i \in DOMAIN arg.practicals |-> PracticalSlotRow(arg.practicals[i])]]
  /\ pc' = "save_mentoring"
  /\ UNCHANGED << req, arg, heap, individual, pos, ret, params, population,
                  fitness_scores, next_generation, generation, best_solution,
                  best_fitness, elites_at_select >>

\* The mentoring loop: its body reads the name menturing, which nothing
\* binds, so the first iteration raises NameError and the method ends with
\* the added rows uncommitted; an empty list skips the loop.
SaveMentoring ==
  /\ pc = "save_mentoring"
  /\ pc' = IF arg.mentoring # << >> THEN "NameError" ELSE "save_breaks"
  /\ UNCHANGED << req, arg, out, heap, individual, pos, ret, params, population,
                  fitness_scores, next_generation, generation, best_solution,
                  best_fitness, elites_at_select >>

\* The break loop, the second db.session.commit(), "return True".
SaveBreaksAndCommit ==
  /\ pc = "save_breaks"
  /\ LET days == [d \in 1 .. Cardinality(req.days) |-> d]
         added == out.session.timetable \o [d \in DOMAIN days |-> LunchRow(days[d])]
     IN  out' = [timetable |-> out.timetable \o added,
                 practical_slot |-> out.practical_slot \o out.session.practical_slot,
                 session |-> NoSession, before |-> out.before]
  /\ pc' = "saved"
  /\ UNCHANGED << req, arg, heap, individual, pos, ret, params, population,
                  fitness_scores, next_generation, generation, best_solution,
                  best_fitness, elites_at_select >>

NextSave ==
  \/ SaveClear
  \/ SaveLecturesAndPracticals
  \/ SaveMentoring
  \/ SaveBreaksAndCommit

SpecSave == InitSave /\ [][NextSave]_vars

(***************************************************************************)
(* Properties.                                                             *)
(***************************************************************************)
\* The lecture references a list of individuals holds.
RefsOf(inds) == Range(AllRefs(inds))

\* C1: every run of evolve terminates: it is at Done after exactly
\* `generations` iterations with a best solution to return, and until then
\* it can always take a step that changes its state.
C1_EvolveTerminates ==
  /\ pc = "Done" => generation = params.generations /\ best_solution # << >>
  /\ pc # "Done" => ENABLED << Next >>_vars

\* C2: create_individual returns for every request: until it has returned
\* it can always take a step that changes its state (place a session, give
\* one up, or return).
C2_BuilderReturns ==
  pc # "returned" => ENABLED << NextBuild >>_vars

\* C3: the recorded best fitness never decreases, and it changes only in an
\* evaluation whose top-scored candidate strictly exceeds it, to that score.
C3_BestFitnessNeverDecreases ==
  [][ /\ best_fitness' >= best_fitness
      /\ best_fitness' # best_fitness =>
           /\ pc = "Evaluating"
           /\ fitness_scores'[1].fitness > best_fitness
           /\ best_fitness' = fitness_scores'[1].fitness ]_vars

\* C3 witness: a later generation whose top-scored candidate is below the
\* recorded best, which is kept.
C3_Witness ==
  /\ pc = "Reproducing"
  /\ generation >= 1
  /\ fitness_scores[1].fitness < best_fitness

\* C4: when a generation's reproduction has finished, every elite it
\* carried forward has exactly the sessions it had when it was selected, and
\* no two members of a population (nor of the next generation being filled)
\* share a lecture record.
C4_ElitesUnmodified ==
  /\ (generation >= 1 /\ pc \in {"Evaluating", "Done"}) =>
       \A i \in DOMAIN elites_at_select :
         Deref(heap, population[i]) = elites_at_select[i]
  /\ \A i, j \in DOMAIN population :
       i # j => RefsOf(<< population[i] >>) \cap RefsOf(<< population[j] >>) = {}
  /\ \A i, j \in DOMAIN next_generation :
       i # j => RefsOf(<< next_generation[i] >>) \cap RefsOf(<< next_generation[j] >>) = {}

\* C5: the best solution shares no lecture record with the population, the
\* scored candidates, the next generation or an individual under
\* construction, and its fitness recomputed equals the recorded best fitness.
C5_BestIsItsOwnCopy ==
  best_solution # << >> =>
    /\ calculate_fitness(req, BestValue[1]) = best_fitness
    /\ RefsOf(best_solution)
         \cap RefsOf(population \o next_generation \o << individual >>
                     \o [i \in DOMAIN fitness_scores |-> fitness_scores[i].ind]) = {}

\* C5 witness: the run is over and the population's first candidate, which
\* reproduction has changed since, scores below the best that was recorded.
C5_Witness ==
  /\ pc = "Done"
  /\ best_solution # << >>
  /\ calculate_fitness(req, Deref(heap, population[1])) < best_fitness

\* C6: at every point of a construction, and in the individual returned, no
\* two lectures have the same (day, slot, room).
C6_LecturesUniqueRoomSlot ==
  LET ls == Deref(heap, individual).lectures
  IN  \A i, j \in DOMAIN ls :
        i # j => << ls[i].day, ls[i].slot_number, ls[i].room_id >>
                 # << ls[j].day, ls[j].slot_number, ls[j].room_id >>

\* C6 witness: a returned individual with two lectures at the same day and
\* slot, in different rooms.
C6_Witness ==
  LET ls == Deref(heap, individual).lectures
  IN  /\ pc = "returned"
      /\ \E i, j \in DOMAIN ls :
           /\ i # j
           /\ ls[i].day = ls[j].day
           /\ ls[i].slot_number = ls[j].slot_number
           /\ ls[i].room_id # ls[j].room_id

\* C7: in the individual returned, two practicals in the same room on the
\* same day have intervals of which one ends strictly before the other
\* begins.
C7_PracticalsDisjointInRoom ==
  pc = "returned" =>
    \A i, j \in DOMAIN individual.practicals :
      LET p == individual.practicals[i]
          q == individual.practicals[j]
      IN  (i # j /\ p.room_id = q.room_id /\ p.day = q.day) =>
            (p.end_slot < q.start_slot \/ q.end_slot < p.start_slot)

\* C7 witness: a returned individual with two practicals on the same day
\* whose intervals overlap, which the builder put in different labs.
C7_Witness ==
  /\ pc = "returned"
  /\ \E i, j \in DOMAIN individual.practicals :
       LET p == individual.practicals[i]
           q == individual.practicals[j]
       IN  /\ i # j
           /\ p.day = q.day
           /\ ~ (p.end_slot < q.start_slot \/ q.end_slot < p.start_slot)
           /\ p.room_id # q.room_id

RECURSIVE SumOver(_, _)
\* The sum of f over the finite set S.
SumOver(f, S) ==
  IF S = {} THEN 0
  ELSE LET x == CHOOSE y \in S : TRUE IN f[x] + SumOver(f, S \ {x})

\* The number of sessions of list s that satisfy P.
CountIn(s, P(_)) == Cardinality({ i \in DOMAIN s : P(s[i]) })

\* The reference penalty of C8, term by term.
ReferencePenalty(r, ind) ==
  LET faculty == { ind.lectures[i].faculty_id : i \in DOMAIN ind.lectures }
                 \cup { ind.practicals[i].faculty_id : i \in DOMAIN ind.practicals }
                 \cup { ind.mentoring[i].faculty_id : i \in DOMAIN ind.mentoring }
      load == [f \in faculty \ {None} |->
                 CountIn(ind.lectures, LAMBDA x : x.faculty_id = f)
                 + 2 * CountIn(ind.practicals, LAMBDA x : x.faculty_id = f)
                 + CountIn(ind.mentoring, LAMBDA x : x.faculty_id = f)]
      overload == [f \in DOMAIN load |-> 10 * Max(0, load[f] - 20)]
      repeated == { i \in DOMAIN ind.lectures :
                      \E j \in 1 .. (i - 1) :
                        /\ ind.lectures[j].room_id = ind.lectures[i].room_id
                        /\ ind.lectures[j].day = ind.lectures[i].day
                        /\ ind.lectures[j].slot_number = ind.lectures[i].slot_number }
      shortfall == [c \in DOMAIN r.class_subjects |->
                      LET cs == r.class_subjects[c]
                      IN  30 * Max(0, cs.lecture_slots_per_week
                                      - CountIn(ind.lectures,
                                                LAMBDA x : x.subject_id = cs.subject_id))
                          + 40 * Max(0, 2 * cs.practical_slots_per_week
                                        - 2 * CountIn(ind.practicals,
                                                      LAMBDA x : x.subject_id = cs.subject_id))]
      mentored == Cardinality({ b \in DOMAIN r.batches : r.batches[b].mentor_id # None })
  IN  SumOver(overload, DOMAIN overload)
      + 50 * Cardinality(repeated)
      + SumOver(shortfall, DOMAIN shortfall)
      + 100 * Max(0, mentored - Len(ind.mentoring))

\* C8: every result of calculate_fitness is max(0, 1000 - P) for the
\* reference penalty P of the candidate, and lies in 0 .. 1000.
C8_FitnessIsReferenceFormula ==
  pc = "scored" =>
    /\ out[Len(out)] = Max(0, 1000 - ReferencePenalty(req, arg.ind))
    /\ out[Len(out)] \in 0 .. 1000

\* C8 witness: a scored candidate that pays all four penalties (an
\* overloaded faculty, a repeated room slot, a lecture shortfall, a missing
\* mentoring session) and still scores above 0.
C8_Witness ==
  /\ pc = "scored"
  /\ out[Len(out)] > 0
  /\ \E i \in DOMAIN arg.ind.lectures : \E j \in 1 .. (i - 1) :
       arg.ind.lectures[j] = arg.ind.lectures[i]
  /\ Len(arg.ind.practicals) = MaxBulkPracticals
  /\ UnderProvided(req, arg.ind) # {}
  /\ arg.ind.mentoring = << >>

\* C9: a candidate given one more lecture of a subject that had fewer than
\* required, at a slot where its faculty was free and the room not taken,
\* scores at least what it scored before.
C9_MissingLectureNeverLowersFitness ==
  (pc = "scored" /\ arg.added /\ arg.clean) => out[2] >= out[1]

\* C9 witness: the added lecture took its faculty's load above 20 hours
\* (30 less for the shortfall, 10 more for the overload).
C9_Witness ==
  /\ pc = "scored"
  /\ arg.added
  /\ arg.clean
  /\ out[2] = out[1] + 20
  /\ LET l == arg.ind.lectures[Len(arg.ind.lectures)]
     IN  CountIn(arg.ind.lectures, LAMBDA x : x.faculty_id = l.faculty_id)
         + 2 * CountIn(arg.ind.practicals, LAMBDA x : x.faculty_id = l.faculty_id)
         + CountIn(arg.ind.mentoring, LAMBDA x : x.faculty_id = l.faculty_id) > 20

\* C9 witness at the floor: the score was 0 before the lecture was added
\* and is 0 after.
C9_WitnessFloor ==
  /\ pc = "scored"
  /\ arg.added
  /\ arg.clean
  /\ out[1] = 0
  /\ out[2] = 0

\* C11 as claimed: in scenario C every complete run returns a best fitness
\* strictly less than 1000.
C11_ScenarioCBelowMaximum ==
  (pc = "Done" /\ req = RequestScenarioC) => best_fitness < 1000

\* C11 as amended: in scenario C every complete run returns a best fitness
\* of exactly 1000, for a best candidate that holds all 6 lectures.
C11_ScenarioCIsMaximum ==
  (pc = "Done" /\ req = RequestScenarioC) =>
    /\ best_fitness = 1000
    /\ Len(best_solution) = 1
    /\ Len(BestValue[1].lectures) = 6
    /\ calculate_fitness(req, BestValue[1]) = 1000

\* C11 witness: a finished run of scenario C.
C11_Witness ==
  /\ pc = "Done"
  /\ req = RequestScenarioC
  /\ generation = params.generations
  /\ Len(best_solution) = 1
  /\ \A i, j \in DOMAIN BestValue[1].lectures :
       i # j => << BestValue[1].lectures[i].day, BestValue[1].lectures[i].slot_number >>
                # << BestValue[1].lectures[j].day, BestValue[1].lectures[j].slot_number >>

\* C12: in scenario A every complete run returns a best candidate with
\* exactly 3 lectures of the subject, no two of them in the same
\* (day, slot, room), and a best fitness of 1000.
C12_ScenarioA ==
  (pc = "Done" /\ req = RequestScenarioA) =>
    /\ best_fitness = 1000
    /\ Len(best_solution) = 1
    /\ LET lectures == BestValue[1].lectures
       IN  /\ Cardinality({ i \in DOMAIN lectures : lectures[i].subject_id = 1 }) = 3
           /\ Len(lectures) = 3
           /\ \A i, j \in DOMAIN lectures :
                i # j => << lectures[i].day, lectures[i].slot_number, lectures[i].room_id >>
                         # << lectures[j].day, lectures[j].slot_number, lectures[j].room_id >>

\* C12 witness: a finished run of scenario A whose best candidate uses both
\* classrooms.
C12_Witness ==
  /\ pc = "Done"
  /\ req = RequestScenarioA
  /\ generation = params.generations
  /\ Len(best_solution) = 1
  /\ { BestValue[1].lectures[i].room_id : i \in DOMAIN BestValue[1].lectures } = {1, 2}

\* C13: when the request has no classroom or no lab, one placeholder room
\* stands in for each missing type, a placeholder holds at most one session
\* at a (day, slot), and create_individual goes on until it returns.
C13_PlaceholderRunCompletes ==
  (req.classrooms[1].id = None \/ req.labs[1].id = None) =>
    LET ind == Deref(heap, individual)
        single == ind.lectures \o ind.mentoring
    IN  /\ req.classrooms[1].id = None => Len(req.classrooms) = 1
        /\ req.labs[1].id = None => Len(req.labs) = 1
        /\ \A i, j \in DOMAIN single :
             (i # j /\ single[i].room_id = None /\ single[j].room_id = None)
               => << single[i].day, single[i].slot_number >>
                  # << single[j].day, single[j].slot_number >>
        /\ \A i, j \in DOMAIN ind.practicals :
             (i # j /\ ind.practicals[i].room_id = None
                    /\ ind.practicals[j].room_id = None
                    /\ ind.practicals[i].day = ind.practicals[j].day)
               => \/ ind.practicals[i].end_slot < ind.practicals[j].start_slot
                  \/ ind.practicals[j].end_slot < ind.practicals[i].start_slot
        /\ pc # "returned" => ENABLED << NextBuild >>_vars

\* A one-slot session on the grid: not at lunch, with the slot's times.
OnGrid(s) ==
  /\ s.slot_number \in {0, 1, 3, 4, 5, 6}
  /\ s.start_time = time_slots[s.slot_number + 1].start
  /\ s.end_time = time_slots[s.slot_number + 1].end

\* Every candidate the run holds: under construction, in the population,
\* scored, in the next generation, and the best so far.
Candidates ==
  << individual >> \o population \o next_generation \o best_solution
  \o [i \in DOMAIN fitness_scores |-> fitness_scores[i].ind]

\* C14: in every candidate that exists at any point of a run, every lecture
\* and mentoring session is at a slot of {0,1,3,4,5,6} with that slot's
\* start and end times, and every practical is at slots (4,5) or (5,6).
C14_TimeGrid ==
  /\ \A k \in DOMAIN heap : OnGrid(heap[k])
  /\ \A c \in DOMAIN Candidates :
       /\ \A i \in DOMAIN Candidates[c].lectures :
            Candidates[c].lectures[i] \in DOMAIN heap
       /\ \A i \in DOMAIN Candidates[c].mentoring : OnGrid(Candidates[c].mentoring[i])
       /\ \A i \in DOMAIN Candidates[c].practicals :
            << Candidates[c].practicals[i].start_slot,
               Candidates[c].practicals[i].end_slot >> \in { << 4, 5 >>, << 5, 6 >> }

\* C14 witness: after a generation, the population holds a candidate with
\* two lectures at one (day, slot), which only crossover and mutation make.
C14_Witness ==
  /\ generation >= 1
  /\ best_solution # << >>
  /\ \E c \in DOMAIN population :
       \E i, j \in DOMAIN population[c].lectures :
         /\ i # j
         /\ population[c].lectures[i] # population[c].lectures[j]
         /\ heap[population[c].lectures[i]].day = heap[population[c].lectures[j]].day
         /\ heap[population[c].lectures[i]].slot_number
              = heap[population[c].lectures[j]].slot_number

\* The Timetable row the mentoring loop is to add for a session.
MentoringRow(mentoring) ==
  TimetableRow(class_id, mentoring.day, mentoring.slot_number, mentoring.start_time,
               mentoring.end_time, None, mentoring.faculty_id, mentoring.room_id,
               mentoring.batch_id, "Mentoring", FALSE)

\* The class's stored rows of one session type, in the order stored.
StoredRows(session_type) ==
  SelectSeq(out.timetable,
            LAMBDA row : row.class_id = class_id /\ row.session_type = session_type)

\* C15: save_to_database completes for every candidate, and the class's
\* stored timetable is then one row per lecture, per practical and per
\* mentoring session and one lunch-break row at slot 2 for every working
\* day, and nothing else.
C15_SavedTimetable ==
  pc \in {"saved", "NameError"} =>
    /\ pc = "saved"
    /\ StoredRows("Lecture") = [i \in DOMAIN arg.lectures |-> LectureRow(arg.lectures[i])]
    /\ StoredRows("Practical")
         = [i \in DOMAIN arg.practicals |-> PracticalRow(arg.practicals[i])]
    /\ StoredRows("Mentoring")
         = [i \in DOMAIN arg.mentoring |-> MentoringRow(arg.mentoring[i])]
    /\ StoredRows("Break") = [d \in 1 .. Cardinality(req.days) |-> LunchRow(d)]
    /\ \A i \in DOMAIN out.timetable :
         out.timetable[i].class_id = class_id
           => out.timetable[i].session_type
                \in {"Lecture", "Practical", "Mentoring", "Break"}

\* The slots a session occupies.
SlotsOf(s) ==
  IF s.session_type = "Practical" THEN s.start_slot .. s.end_slot ELSE {s.slot_number}

\* Two sessions of a candidate at one day and slot.
Clash(ind, Same(_, _)) ==
  LET all == ind.lectures \o ind.practicals \o ind.mentoring
  IN  \E i, j \in DOMAIN all :
        /\ i # j
        /\ Same(all[i], all[j])
        /\ all[i].day = all[j].day
        /\ SlotsOf(all[i]) \cap SlotsOf(all[j]) # {}

\* A faculty member in two sessions at one day and slot.
FacultyDoubleBooked(ind) ==
  Clash(ind, LAMBDA s, t : s.faculty_id # None /\ s.faculty_id = t.faculty_id)

\* A room hosting two sessions at one day and slot.
RoomDoubleBooked(ind) ==
  Clash(ind, LAMBDA s, t : s.room_id = t.room_id)

\* C16: mutate applied to a candidate with no faculty and no room
\* double-booking yields a candidate with none.
C16_MutateKeepsConflictFree ==
  (pc = "mutated" /\ ~ FacultyDoubleBooked(arg) /\ ~ RoomDoubleBooked(arg)) =>
    /\ ~ FacultyDoubleBooked(Deref(heap, population[1]))
    /\ ~ RoomDoubleBooked(Deref(heap, population[1]))

\* C17: a child of the crossover of two built candidates that holds a
\* faculty or room double-booking scores strictly below 1000.
C17_CrossoverConflictPenalized ==
  pc = "crossed" =>
    LET child == Deref(heap, next_generation[1])
    IN  (FacultyDoubleBooked(child) \/ RoomDoubleBooked(child))
          => calculate_fitness(req, child) < 1000

\* The first floor(|a|/2) elements of a, then b from that index to its end.
HalfAndHalf(a, b) ==
  LET split == Len(a) \div 2
  IN  [i \in 1 .. (split + Max(0, Len(b) - split)) |->
         IF i <= split THEN a[i] ELSE b[i]]

SessionLists == {"lectures", "practicals", "mentoring"}

C19_ShortListsUnmixed ==
  pc = "child" =>
    \A l \in SessionLists :
      (Len(arg.parent1[l]) <= 1 \/ Len(arg.parent2[l]) <= 1)
        => out[l] = arg.parent1[l]

\* C20: when a child's parents are chosen, a scored population of at least
\* 10 candidates offers any two of its 10 best as the parents, one of 2 to
\* 9 candidates offers its best and its second best, and one of a single
\* candidate has parent B built; no parent is from outside the 10 best.
C20_ParentsFromTopTen ==
  (pc = "Reproducing" /\ Len(next_generation) < params.population_size) =>
    LET n == Len(fitness_scores)
        top == { fitness_scores[i].ind : i \in 1 .. (IF n < 10 THEN n ELSE 10) }
    IN  /\ n >= 10 => ParentChoices(fitness_scores) = top \X top
        /\ (1 < n /\ n < 10) =>
             ParentChoices(fitness_scores)
               = { << fitness_scores[1].ind, fitness_scores[2].ind >> }
        /\ n <= 1 => ParentChoices(fitness_scores) = {}
        /\ ParentChoices(fitness_scores) \subseteq top \X top

\* The places of the lectures that differ between two lecture lists.
ChangedLectures(before, after) ==
  { i \in DOMAIN before : before[i] # after[i] }

\* C21: mutate leaves the practical and mentoring lists as they were, keeps
\* the number and order of the lectures, changes at most one lecture, and
\* in it either the day alone or the slot with its start and end times,
\* never its subject, faculty or room.
C21_MutationFrame ==
  pc = "mutated" =>
    LET after == Deref(heap, population[1])
    IN  /\ after.practicals = arg.practicals
        /\ after.mentoring = arg.mentoring
        /\ Len(after.lectures) = Len(arg.lectures)
        /\ Cardinality(ChangedLectures(arg.lectures, after.lectures)) <= 1
        /\ \A i \in ChangedLectures(arg.lectures, after.lectures) :
             LET old == arg.lectures[i]
                 new == after.lectures[i]
             IN  \/ new = [old EXCEPT !.day = new.day]
                 \/ new = [old EXCEPT !.slot_number = new.slot_number,
                                      !.start_time = new.start_time,
                                      !.end_time = new.end_time]

\* C21 witness: a mutated candidate with a practical and a mentoring
\* session whose lecture has moved to another slot.
C21_Witness ==
  /\ pc = "mutated"
  /\ arg.practicals # << >>
  /\ arg.mentoring # << >>
  /\ \E i \in DOMAIN arg.lectures :
       heap[population[1].lectures[i]].slot_number # arg.lectures[i].slot_number

\* C22: in every candidate create_individual returns, no two sessions of
\* one faculty member (lectures, practicals over both their slots,
\* mentoring) are on the same day at a common slot.
C22_BuiltFacultyNotDoubleBooked ==
  pc = "returned" =>
    LET ind == Deref(heap, individual)
        all == ind.lectures \o ind.practicals \o ind.mentoring
    IN  \A i, j \in DOMAIN all :
          (i # j /\ all[i].faculty_id # None
                 /\ all[i].faculty_id = all[j].faculty_id
                 /\ all[i].day = all[j].day)
            => SlotsOf(all[i]) \cap SlotsOf(all[j]) = {}

\* C22 witness: a returned candidate in which one faculty member has a
\* lecture, a practical and a mentoring session on the same day.
C22_Witness ==
  /\ pc = "returned"
  /\ LET ind == Deref(heap, individual)
     IN  \E l \in DOMAIN ind.lectures, p \in DOMAIN ind.practicals,
            m \in DOMAIN ind.mentoring :
           /\ ind.lectures[l].faculty_id # None
           /\ ind.lectures[l].faculty_id = ind.practicals[p].faculty_id
           /\ ind.lectures[l].faculty_id = ind.mentoring[m].faculty_id
           /\ ind.lectures[l].day = ind.practicals[p].day
           /\ ind.lectures[l].day = ind.mentoring[m].day

\* C23: in every candidate create_individual returns, no two lectures of
\* the class are at one (day, slot), no lecture is at a (day, slot) that a
\* practical or mentoring session of a batch of the class covers, and no
\* batch has two of its practical and mentoring sessions overlapping.
C23_BuiltStudentsNotDoubleBooked ==
  pc = "returned" =>
    LET ind == Deref(heap, individual)
        batch_sessions == ind.practicals \o ind.mentoring
    IN  /\ \A i, j \in DOMAIN ind.lectures :
             (i # j /\ ind.lectures[i].day = ind.lectures[j].day)
               => ind.lectures[i].slot_number # ind.lectures[j].slot_number
        /\ \A i \in DOMAIN ind.lectures, j \in DOMAIN batch_sessions :
             ind.lectures[i].day = batch_sessions[j].day
               => ind.lectures[i].slot_number \notin SlotsOf(batch_sessions[j])
        /\ \A i, j \in DOMAIN batch_sessions :
             (i # j /\ batch_sessions[i].batch_id = batch_sessions[j].batch_id
                    /\ batch_sessions[i].day = batch_sessions[j].day)
               => SlotsOf(batch_sessions[i]) \cap SlotsOf(batch_sessions[j]) = {}

RECURSIVE Flatten(_)
\* The lists of a list, one after the other.
Flatten(lists) ==
  IF lists = << >> THEN << >> ELSE Head(lists) \o Flatten(Tail(lists))

\* The subject assignment of each lecture a request asks for, in the order
\* the lecture loops of create_individual run.
RequiredLectures(r) ==
  Flatten([c \in DOMAIN r.class_subjects |->
             [n \in 1 .. r.class_subjects[c].lecture_slots_per_week |->
                r.class_subjects[c].id]])

\* The (batch, subject) of each practical a request asks for, in the order
\* of the practical loops.
RequiredPracticals(r) ==
  Flatten([b \in DOMAIN r.batches |->
             Flatten([c \in DOMAIN r.class_subjects |->
                        [n \in 1 .. r.class_subjects[c].practical_slots_per_week |->
                           << r.batches[b].id, r.class_subjects[c].subject_id >>]])])

\* The candidates evolve holds: population, scored, next generation, best.
RunCandidates ==
  population \o next_generation \o best_solution
  \o [i \in DOMAIN fitness_scores |-> fitness_scores[i].ind]

Unmentored(r, ind) ==
  { b \in DOMAIN r.batches :
      /\ r.batches[b].mentor_id # None
      /\ \A i \in DOMAIN ind.mentoring : ind.mentoring[i].batch_id # r.batches[b].id }

\* C25: every candidate of a run, built or child of a crossover, in which a
\* batch with a mentor has no mentoring session pays at least 100 for
\* missing mentoring, and so scores at most 900.
C25_MissingMentoringPenalized ==
  \A k \in DOMAIN (population \o next_generation) :
    LET c == Deref(heap, (population \o next_generation)[k])
    IN  Unmentored(req, c) # {}
          => /\ MentoringPenalty(req.batches, c.mentoring) >= 100
             /\ calculate_fitness(req, c) <= 900

\* The rows of this class in a table.
RowsOfClass(rows) == SelectSeq(rows, LAMBDA row : row.class_id = class_id)

\* C26: when save_to_database has raised, the timetable rows and the
\* practical-slot rows the class had before the call are still stored.
C26_FailedSaveKeepsStored ==
  pc = "NameError" =>
    /\ RowsOfClass(out.timetable) = RowsOfClass(out.before.timetable)
    /\ RowsOfClass(out.practical_slot) = RowsOfClass(out.before.practical_slot)

====
